---- MODULE Spec2Model ----
(***************************************************************************)
(* Orchestrator template: one job, fanned out to a sub-agent, in the two   *)
(* deployments the repository holds:                                       *)
(*   variant "do" : OrchestratorJob, the alarm (tick) driven Durable       *)
(*                  Object (handleStart / processAlarm / dispatchEntities  *)
(*                  / pollEntities / finalize);                            *)
(*   variant "kv" : the worker of src/index.ts (POST /process, processJob, *)
(*                  processEntity, PromisePool) that keeps the job in KV.  *)
(* stored is the durable job record, mem the state object of the handler   *)
(* that is running, pc the handler's position (its awaits).                *)
(* The clock now advances in steps of TimeUnit milliseconds.                *)
(***************************************************************************)
EXTENDS Integers, Sequences, FiniteSets, TLC

VARIABLES variant, stored, mem, pc, now, alarm, toDispatch, toPoll,
          pool, kvIdx, task, resp, runs, crashes, parked, recorded, clean,
          slow, sent, call

vars == <<variant, stored, mem, pc, now, alarm, toDispatch, toPoll,
          pool, kvIdx, task, resp, runs, crashes, parked, recorded, clean,
          slow, sent, call>>

\* ------------------------------------------------------------------ bounds
MaxIds == 2
MaxTime == 3
MaxRuns == 2
MaxCrashes == 1
PollChecks == 2
\* the clock steps taken while the worker runs (it reads the clock only to
\* stamp completed_at)
KvMaxTime == 1

\* --------------------------------------------------------------- constants
DefaultMaxRetries == 3
DefaultConcurrency == 5
poll_timeout_ms == 300000

\* an option the caller left out (undefined / null)
Null == -1

\* entity identifiers a caller may send; "1" is an integer-like key
EntityIds == {"1", "a"}
RetryOptions == {Null, 0, 1, 2}
ConcurrencyOptions == {Null, 0, 1}
\* one step of the clock, in milliseconds: just over the poll timeout
TimeUnit == poll_timeout_ms + 1

ExpiresAt == MaxTime - 1

Range(s) == {s[i] : i \in 1..Len(s)}

IdLists == UNION {[1..n -> EntityIds] : n \in 0..MaxIds}

\* a ?? b
Coalesce(a, b) == IF a = Null THEN b ELSE a

Min(a, b) == IF a <= b THEN a ELSE b

\* ------------------------------------------------------- JS object key order
IntKey(id) == CASE id = "1" -> 1 [] OTHER -> -1

RECURSIVE SortedIntKeys(_)
SortedIntKeys(S) ==
  IF S = {} THEN <<>>
  ELSE LET m == CHOOSE x \in S : \A y \in S : IntKey(x) <= IntKey(y)
       IN <<m>> \o SortedIntKeys(S \ {m})

RECURSIVE FirstInsertions(_)
FirstInsertions(s) ==
  IF s = <<>> THEN <<>>
  ELSE LET r == FirstInsertions(SubSeq(s, 1, Len(s) - 1))
           x == s[Len(s)]
       IN IF x \in Range(r) THEN r ELSE Append(r, x)

\* Object.keys / Object.entries of the entity map built by inserting ids in
\* order: integer-like keys ascending, then the others in insertion order
ObjectKeys(ids) ==
  SortedIntKeys({x \in Range(ids) : IntKey(x) >= 0})
    \o SelectSeq(FirstInsertions(ids), LAMBDA x : IntKey(x) < 0)

\* ------------------------------------------------------------------ records
NoJob == [status |-> "absent"]
NoResult == [total |-> -1, succeeded |-> -1, failed |-> -1]
NewEntity == [status |-> "pending", attempts |-> 0, sub |-> FALSE, pst |-> -1,
              err |-> "none"]
IdlePool == [running |-> 0, queue |-> <<>>]
\* what the external recorder left: the log file linked to the collection,
\* the status of the collection updated
NoRecord == [written |-> FALSE, linked |-> FALSE, updated |-> FALSE]
\* no other handler call is suspended at an await
NoRun == [pc |-> "idle"]
\* a handleStart call is suspended in discoverEntities
Discovering == [pc |-> "discover"]

Terminal == {"done", "error"}
InFlight == {"dispatched", "polling"}

CountStatus(ents, S) == Cardinality({k \in DOMAIN ents : ents[k].status \in S})

updateProgress(state) ==
  [state EXCEPT !.progress =
     [total |-> Cardinality(DOMAIN state.entities),
      pending |-> CountStatus(state.entities, {"pending"}),
      dispatched |-> CountStatus(state.entities, InFlight),
      done |-> CountStatus(state.entities, {"done"}),
      error |-> CountStatus(state.entities, {"error"})]]

\* the config intake resolves from input.options
BuildConfig(mr, cc) ==
  [max_retries |-> Coalesce(mr, DefaultMaxRetries),
   concurrency |-> Coalesce(cc, DefaultConcurrency)]

\* the initial job record both intakes build from the entity id list
InitialState(entityIds, mr, cc) ==
  [status |-> "pending",
   order |-> ObjectKeys(entityIds),
   entities |-> [k \in Range(entityIds) |-> NewEntity],
   progress |-> [total |-> Len(entityIds), pending |-> Len(entityIds),
                 dispatched |-> 0, done |-> 0, error |-> 0],
   config |-> BuildConfig(mr, cc),
   expires_at |-> ExpiresAt,
   error |-> "none",
   result |-> NoResult,
   completed_at |-> -1]

\* sent counts, per entity of the record, the invoke requests that went out
\* to the sub-agent; a new record starts with none, and the count is kept
\* only as long as every tick has run to its end and one processJob call at
\* a time works on the record (a crash or an overlapping call drops it)
NoneSent(entityIds) == [k \in Range(entityIds) |-> 0]
Uncounted == <<>>

\* dispatchToAgent / dispatchToSubAgent: one invoke request per call
invoke(count, entityId) ==
  IF entityId \in DOMAIN count THEN [count EXCEPT ![entityId] = @ + 1]
  ELSE count

\* call holds the arguments and the locals of a function that is followed on
\* its own, outside a job (discoverEntities, the handling of one entity);
\* no such call is followed while a job runs
NoCall == [fn |-> "none"]

\* ------------------------------------------------------------------- Init
\* clean records the answers of the sub-agent to the run: TRUE as long as
\* every dispatch was accepted and every status check made came back done;
\* slow likewise: TRUE as long as every dispatch was accepted and no status
\* check made came back with a terminal status
NoJobRuns ==
  /\ variant \in {"do", "kv"}
  /\ stored = NoJob
  /\ mem = NoJob
  /\ pc = "idle"
  /\ now = 0
  /\ alarm = FALSE
  /\ toDispatch = <<>>
  /\ toPoll = <<>>
  /\ pool = IdlePool
  /\ kvIdx = 0
  /\ task = <<>>
  /\ resp = "none"
  /\ runs = 0
  /\ crashes = 0
  /\ parked = NoRun
  /\ recorded = NoRecord
  /\ clean = TRUE
  /\ slow = TRUE
  /\ sent = Uncounted

Init == NoJobRuns /\ call = NoCall

\* the variables of the job, which a function followed on its own leaves alone
jobVars == <<variant, stored, mem, pc, now, alarm, toDispatch, toPoll,
             pool, kvIdx, task, resp, runs, crashes, parked, recorded, clean,
             slow, sent>>

\* ------------------------------------------------------ time (Date.now())
AdvanceTime ==
  /\ now < (IF variant = "kv" THEN KvMaxTime ELSE MaxTime)
  /\ now' = now + 1
  /\ UNCHANGED <<call, sent, variant, clean, slow, parked, recorded, stored, mem, pc, alarm, toDispatch, toPoll,
                 pool, kvIdx, task, resp, runs, crashes>>

\* ------------------------------------------------------------- discovery
\* what discoverEntities gives handleStart / POST /process: it throws, or it
\* returns the ids of the collection (possibly none)
DiscoveryResults ==
  {[ok |-> FALSE, ids |-> <<>>]} \cup {[ok |-> TRUE, ids |-> l] : l \in IdLists}
NoDiscovery == [ok |-> TRUE, ids |-> <<>>]
DiscoveryFor(ids) == IF Len(ids) = 0 THEN DiscoveryResults ELSE {NoDiscovery}

\* the entity ids intake works with: the explicit list, else the discovered
ResolveEntityIds(ids, disc) == IF Len(ids) > 0 THEN ids ELSE disc.ids

\* the requests drawn for an intake: any body for a new job_id, one fixed
\* body for a request that repeats the job_id of a job that exists (the
\* Durable Object answers it before reading the body) or that arrives while
\* another handleStart call is suspended in discovery
RequestLists ==
  IF stored = NoJob /\ parked = NoRun THEN IdLists ELSE {<<"a">>}
RequestRetries ==
  IF stored = NoJob /\ parked = NoRun THEN RetryOptions ELSE {1}
RequestConcurrency ==
  IF stored = NoJob /\ parked = NoRun THEN ConcurrencyOptions ELSE {1}
\* the options of the one request that is followed through its suspension in
\* discovery
DiscoverRequest == [mr |-> 1, cc |-> Null]
RequestValid == IF stored = NoJob THEN BOOLEAN ELSE {TRUE}

\* ---------------------------------------------- Durable Object: handleStart
\* mutant: a discovery that finds no entity is not turned away
handleStartNoEmptyCheck(ids, disc, mr, cc) ==
  /\ variant = "do"
  /\ IF stored # NoJob
       THEN /\ resp' = "accepted"
            /\ UNCHANGED <<stored, alarm, runs, sent>>
       ELSE LET entityIds == ResolveEntityIds(ids, disc)
            IN IF ~disc.ok
                 THEN /\ resp' = "rejected"
                      /\ UNCHANGED <<stored, alarm, runs, sent>>
                 ELSE /\ stored' = InitialState(entityIds, mr, cc)
                      /\ sent' = NoneSent(entityIds)
                      /\ alarm' = TRUE
                      /\ runs' = runs + 1
                      /\ resp' = "accepted"
  /\ UNCHANGED <<call, variant, clean, slow, parked, recorded, mem, pc, now, toDispatch, toPoll,
                 pool, kvIdx, task, crashes>>

handleStart(ids, disc, mr, cc) ==
  /\ variant = "do"
  /\ IF stored # NoJob
       THEN /\ resp' = "accepted"
            /\ UNCHANGED <<stored, alarm, runs, sent>>
       ELSE LET entityIds == ResolveEntityIds(ids, disc)
            IN IF ~disc.ok \/ Len(entityIds) = 0
                 THEN /\ resp' = "rejected"
                      /\ UNCHANGED <<stored, alarm, runs, sent>>
                 ELSE /\ stored' = InitialState(entityIds, mr, cc)
                      /\ sent' = NoneSent(entityIds)
                      /\ alarm' = TRUE
                      /\ runs' = runs + 1
                      /\ resp' = "accepted"
  /\ UNCHANGED <<call, variant, clean, slow, parked, recorded, mem, pc, now, toDispatch, toPoll, pool, kvIdx, task,
                 crashes>>

\* handleStart of a request without entity_ids, from its existence check to
\* its await of discoverEntities: no record exists, and while the call waits
\* for the pages the object takes other events
handleStartDiscover ==
  /\ variant = "do"
  /\ stored = NoJob
  /\ parked = NoRun
  /\ parked' = Discovering
  /\ UNCHANGED <<call, sent, variant, clean, slow, recorded, stored, mem, pc, now, alarm,
                 toDispatch, toPoll, pool, kvIdx, task, resp, runs, crashes>>

\* discoverEntities returns to the suspended call, which goes on from there:
\* the record is not read again before saveState and scheduleImmediateAlarm
handleStartDiscovered(disc) ==
  /\ variant = "do"
  /\ parked = Discovering
  /\ parked' = NoRun
  /\ IF ~disc.ok \/ Len(disc.ids) = 0
       THEN /\ resp' = "rejected"
            /\ UNCHANGED <<stored, alarm, runs, sent>>
       ELSE /\ stored' = InitialState(disc.ids, DiscoverRequest.mr,
                                      DiscoverRequest.cc)
            /\ sent' = NoneSent(disc.ids)
            /\ alarm' = TRUE
            /\ runs' = runs + 1
            /\ resp' = "accepted"
  /\ UNCHANGED <<call, variant, clean, slow, recorded, mem, pc, now, toDispatch,
                 toPoll, pool, kvIdx, task, crashes>>

\* ------------------------------------------------- Durable Object: the tick
\* BaseAgentDO.isExpired: the deadline has passed; processAlarm calls it on
\* whatever record the tick loaded, with no test of the job status before it
isExpired(state) == now > state.expires_at

\* BaseAgentDO.failJob: force-fail and persist
failJob(state, code) == [state EXCEPT !.status = "error", !.error = code]

\* the alarm handler loads the record and enters processAlarm, which moves a
\* pending job to running and saves it
AlarmFire ==
  /\ variant = "do"
  /\ pc = "idle"
  /\ alarm
  /\ alarm' = FALSE
  /\ IF stored = NoJob
       THEN UNCHANGED <<stored, mem, pc>>
       ELSE LET state == IF stored.status = "pending"
                           THEN [stored EXCEPT !.status = "running"]
                           ELSE stored
            IN /\ mem' = state
               /\ stored' = state
               /\ pc' = "check"
  /\ UNCHANGED <<call, sent, variant, clean, slow, parked, recorded, now, toDispatch, toPoll, pool, kvIdx, task, resp,
                 runs, crashes>>

\* Object.entries(state.entities).filter(status in S).map(id)
EntitiesIn(state, S) ==
  SelectSeq(state.order, LAMBDA id : state.entities[id].status \in S)

pendingEntities(state) == EntitiesIn(state, {"pending"})

\* mutant: the poll list also takes the entities that are pending
dispatchedEntitiesWithPending(state) ==
  EntitiesIn(state, InFlight \cup {"pending"})

\* mutant: the poll list is cut to the concurrency budget that is left
dispatchedEntitiesWithinBudget(state) ==
  SubSeq(EntitiesIn(state, InFlight), 1,
         Min(Len(EntitiesIn(state, InFlight)),
             IF state.config.concurrency > Len(EntitiesIn(state, InFlight))
               THEN state.config.concurrency - Len(EntitiesIn(state, InFlight))
               ELSE 0))

\* mutant: the poll list also takes the entities that are done
dispatchedEntitiesWithDone(state) == EntitiesIn(state, InFlight \cup {"done"})

dispatchedEntities(state) == EntitiesIn(state, InFlight)

\* mutant: the slots are not reduced by the entities already in flight
availableSlotsIgnoringInFlight(state) == state.config.concurrency

availableSlots(state) ==
  state.config.concurrency - Len(dispatchedEntities(state))

\* mutant: the slice takes the last pending entities
SelectToDispatchFromEnd(state) ==
  IF availableSlots(state) > 0 /\ Len(pendingEntities(state)) > 0
    THEN SubSeq(pendingEntities(state),
                Len(pendingEntities(state)) + 1
                  - Min(availableSlots(state), Len(pendingEntities(state))),
                Len(pendingEntities(state)))
    ELSE <<>>

\* pendingEntities.slice(0, availableSlots), when there is capacity
SelectToDispatch(state) ==
  IF availableSlots(state) > 0 /\ Len(pendingEntities(state)) > 0
    THEN SubSeq(pendingEntities(state), 1,
                Min(availableSlots(state), Len(pendingEntities(state))))
    ELSE <<>>

\* mutant: the counts of the result are added to those of an earlier result
finalizeAccumulating(state) ==
  LET s == updateProgress(state)
      succeeded == s.progress.done
                     + (IF s.result = NoResult THEN 0 ELSE s.result.succeeded)
      failed == s.progress.error
                  + (IF s.result = NoResult THEN 0 ELSE s.result.failed)
      total == s.progress.total
      status == IF failed = total THEN "error" ELSE "done"
  IN [s EXCEPT !.status = status,
               !.completed_at = now,
               !.result = [total |-> total, succeeded |-> succeeded,
                           failed |-> failed],
               !.error = IF status = "error" THEN "ALL_FAILED" ELSE @]

\* mutant: one failed entity is enough to fail the job
finalizeAnyFailed(state) ==
  LET s == updateProgress(state)
      status == IF s.progress.error > 0 THEN "error" ELSE "done"
  IN [s EXCEPT !.status = status,
               !.completed_at = now,
               !.result = [total |-> s.progress.total,
                           succeeded |-> s.progress.done,
                           failed |-> s.progress.error],
               !.error = IF status = "error" THEN "ALL_FAILED" ELSE @]

finalize(state) ==
  LET s == updateProgress(state)
      succeeded == s.progress.done
      failed == s.progress.error
      total == s.progress.total
      status == IF failed = total THEN "error" ELSE "done"
  IN [s EXCEPT !.status = status,
               !.completed_at = now,
               !.result = [total |-> total, succeeded |-> succeeded,
                           failed |-> failed],
               !.error = IF status = "error" THEN "ALL_FAILED" ELSE @]

\* where the tick goes once the entity lists are known
AfterLists(d, p) ==
  IF Len(d) > 0 THEN "dispatch" ELSE IF Len(p) > 0 THEN "poll" ELSE "save"

\* mutant: the job is finalized as soon as no entity is pending
processAlarmCheckIgnoresInFlight(state) ==
  IF isExpired(state)
    THEN [pc |-> "exp_log", state |-> failJob(state, "EXPIRED"), save |-> TRUE,
          d |-> <<>>, p |-> <<>>]
  ELSE IF Len(pendingEntities(state)) = 0
    THEN [pc |-> "fin_log", state |-> finalize(state), save |-> TRUE,
          d |-> <<>>, p |-> <<>>]
  ELSE [pc |-> AfterLists(SelectToDispatch(state), dispatchedEntities(state)),
        state |-> state, save |-> FALSE,
        d |-> SelectToDispatch(state), p |-> dispatchedEntities(state)]

\* mutant: the expired tick marks the job failed and goes on with its work
processAlarmCheckExpiredGoesOn(state) ==
  IF isExpired(state)
    THEN [pc |-> AfterLists(SelectToDispatch(state), dispatchedEntities(state)),
          state |-> failJob(state, "EXPIRED"), save |-> TRUE,
          d |-> SelectToDispatch(state), p |-> dispatchedEntities(state)]
  ELSE IF Len(pendingEntities(state)) = 0 /\ Len(dispatchedEntities(state)) = 0
    THEN [pc |-> "fin_log", state |-> finalize(state), save |-> TRUE,
          d |-> <<>>, p |-> <<>>]
  ELSE [pc |-> AfterLists(SelectToDispatch(state), dispatchedEntities(state)),
        state |-> state, save |-> FALSE,
        d |-> SelectToDispatch(state), p |-> dispatchedEntities(state)]

\* mutant: the all-done test comes before the expiry test
processAlarmCheckDoneFirst(state) ==
  IF Len(pendingEntities(state)) = 0 /\ Len(dispatchedEntities(state)) = 0
    THEN [pc |-> "fin_log", state |-> finalize(state), save |-> TRUE,
          d |-> <<>>, p |-> <<>>]
  ELSE IF isExpired(state)
    THEN [pc |-> "exp_log", state |-> failJob(state, "EXPIRED"), save |-> TRUE,
          d |-> <<>>, p |-> <<>>]
  ELSE [pc |-> AfterLists(SelectToDispatch(state), dispatchedEntities(state)),
        state |-> state, save |-> FALSE,
        d |-> SelectToDispatch(state), p |-> dispatchedEntities(state)]

\* processAlarm from the expiry check to the scheduling decision
processAlarmCheck(state) ==
  IF isExpired(state)
    THEN [pc |-> "exp_log", state |-> failJob(state, "EXPIRED"), save |-> TRUE,
          d |-> <<>>, p |-> <<>>]
  ELSE IF Len(pendingEntities(state)) = 0 /\ Len(dispatchedEntities(state)) = 0
    THEN [pc |-> "fin_log", state |-> finalize(state), save |-> TRUE,
          d |-> <<>>, p |-> <<>>]
  ELSE [pc |-> AfterLists(SelectToDispatch(state), dispatchedEntities(state)),
        state |-> state, save |-> FALSE,
        d |-> SelectToDispatch(state), p |-> dispatchedEntities(state)]

ProcessCheck ==
  /\ pc = "check"
  /\ LET r == processAlarmCheck(mem)
     IN /\ pc' = r.pc
        /\ mem' = r.state
        /\ stored' = IF r.save THEN r.state ELSE stored
        /\ toDispatch' = r.d
        /\ toPoll' = r.p
  /\ UNCHANGED <<call, sent, variant, clean, slow, parked, recorded, now, alarm, pool, kvIdx, task, resp, runs, crashes>>

\* one iteration of the loop of dispatchEntities; ok: the dispatch was
\* accepted with a sub_job_id
\* mutant: an accepted dispatch does not record its poll start time
dispatchEntityNoPollStart(state, entityId, ok) ==
  LET e == state.entities[entityId]
      attempts == e.attempts + 1
  IN [state EXCEPT !.entities[entityId] =
        IF ok
          THEN [e EXCEPT !.status = "dispatched", !.attempts = attempts,
                         !.sub = TRUE, !.err = "none"]
          ELSE [e EXCEPT !.attempts = attempts,
                         !.err = "dispatch",
                         !.status = IF attempts >= state.config.max_retries
                                      THEN "error" ELSE "pending"]]

\* mutant: attempts counts only the dispatches that were accepted
dispatchEntityCountsAccepted(state, entityId, ok) ==
  LET e == state.entities[entityId]
      attempts == e.attempts + 1
  IN [state EXCEPT !.entities[entityId] =
        IF ok
          THEN [status |-> "dispatched", attempts |-> attempts, sub |-> TRUE,
                pst |-> now, err |-> "none"]
          ELSE [e EXCEPT !.err = "dispatch",
                         !.status = IF attempts >= state.config.max_retries
                                      THEN "error" ELSE "pending"]]

dispatchEntity(state, entityId, ok) ==
  LET e == state.entities[entityId]
      attempts == e.attempts + 1
  IN [state EXCEPT !.entities[entityId] =
        IF ok
          THEN [status |-> "dispatched", attempts |-> attempts, sub |-> TRUE,
                pst |-> now, err |-> "none"]
          ELSE [e EXCEPT !.attempts = attempts,
                         !.err = "dispatch",
                         !.status = IF attempts >= state.config.max_retries
                                      THEN "error" ELSE "pending"]]

\* mutant: the record is saved after every dispatch
DispatchOneSaving(ok) ==
  /\ pc = "dispatch"
  /\ mem' = dispatchEntity(mem, Head(toDispatch), ok)
  /\ stored' = mem'
  /\ toDispatch' = Tail(toDispatch)
  /\ pc' = AfterLists(Tail(toDispatch), toPoll)
  /\ clean' = (clean /\ ok)
  /\ slow' = (slow /\ ok)
  /\ sent' = invoke(sent, Head(toDispatch))
  /\ UNCHANGED <<call, variant, parked, recorded, now, alarm, toPoll, pool, kvIdx,
                 task, resp, runs, crashes>>

DispatchOne(ok) ==
  /\ pc = "dispatch"
  /\ mem' = dispatchEntity(mem, Head(toDispatch), ok)
  /\ toDispatch' = Tail(toDispatch)
  /\ pc' = AfterLists(Tail(toDispatch), toPoll)
  /\ clean' = (clean /\ ok)
  /\ slow' = (slow /\ ok)
  /\ sent' = invoke(sent, Head(toDispatch))
  /\ UNCHANGED <<call, variant, parked, recorded, stored, now, alarm, toPoll, pool, kvIdx, task,
                 resp, runs, crashes>>

\* an attempt that failed (remote error or timeout): retry or give up
\* mutant: a failed attempt that is retried keeps its sub_job_id
failAttemptKeepsSubJob(state, e, why) ==
  IF e.attempts >= state.config.max_retries
    THEN [e EXCEPT !.err = why, !.status = "error"]
    ELSE [e EXCEPT !.err = why, !.status = "pending"]

\* mutant: a failed attempt that is retried keeps the status of the attempt
failAttemptKeepsStatus(state, e, why) ==
  IF e.attempts >= state.config.max_retries
    THEN [e EXCEPT !.err = why, !.status = "error"]
    ELSE [e EXCEPT !.err = why, !.sub = FALSE, !.pst = -1]

failAttempt(state, e, why) ==
  IF e.attempts >= state.config.max_retries
    THEN [e EXCEPT !.err = why, !.status = "error"]
    ELSE [e EXCEPT !.err = why, !.status = "pending", !.sub = FALSE,
                   !.pst = -1]

\* Date.now() - (entityState.poll_start_time ?? 0)
pollElapsed(e) == (now - (IF e.pst = -1 THEN 0 ELSE e.pst)) * TimeUnit

\* what one status fetch can give: the sub-job is done, it has failed, it is
\* still pending or running, or the fetch itself failed (a network error or
\* a response that is not ok)
TerminalAnswers == {"done", "error"}
NonTerminalAnswers == {"running", "throws"}
PollAnswers == TerminalAnswers \cup NonTerminalAnswers

\* mutant: a status fetch that failed counts as a failure of the sub-job
pollEntityTransientAsError(state, entityId, answer) ==
  LET e == state.entities[entityId]
  IN IF ~e.sub THEN state
     ELSE IF pollElapsed(e) > poll_timeout_ms
       THEN [state EXCEPT !.entities[entityId] = failAttempt(state, e, "timeout")]
     ELSE IF answer = "done"
       THEN [state EXCEPT !.entities[entityId] =
               [e EXCEPT !.status = "done", !.err = "none"]]
     ELSE IF answer \in {"error", "throws"}
       THEN [state EXCEPT !.entities[entityId] = failAttempt(state, e, "remote")]
     ELSE state

\* mutant: a finished sub-job is handled by the failure branch whatever its
\* status
pollEntityDoneAsError(state, entityId, answer) ==
  LET e == state.entities[entityId]
  IN IF ~e.sub THEN state
     ELSE IF pollElapsed(e) > poll_timeout_ms
       THEN [state EXCEPT !.entities[entityId] = failAttempt(state, e, "timeout")]
     ELSE IF answer \in {"done", "error"}
       THEN [state EXCEPT !.entities[entityId] = failAttempt(state, e, "remote")]
     ELSE state

\* one iteration of the loop of pollEntities; answer: what pollAgentStatus
\* reports when it is called (one of PollAnswers)
pollEntity(state, entityId, answer) ==
  LET e == state.entities[entityId]
  IN IF ~e.sub THEN state
     ELSE IF pollElapsed(e) > poll_timeout_ms
       THEN [state EXCEPT !.entities[entityId] = failAttempt(state, e, "timeout")]
     ELSE IF answer = "done"
       THEN [state EXCEPT !.entities[entityId] =
               [e EXCEPT !.status = "done", !.err = "none"]]
     ELSE IF answer = "error"
       THEN [state EXCEPT !.entities[entityId] = failAttempt(state, e, "remote")]
     ELSE state

PollOne(answer) ==
  /\ pc = "poll"
  /\ mem' = pollEntity(mem, Head(toPoll), answer)
  /\ toPoll' = Tail(toPoll)
  /\ pc' = AfterLists(<<>>, Tail(toPoll))
  /\ clean' = (clean /\ (~mem.entities[Head(toPoll)].sub
                            \/ (pollElapsed(mem.entities[Head(toPoll)])
                                  <= poll_timeout_ms /\ answer = "done")))
  /\ slow' = (slow /\ (~mem.entities[Head(toPoll)].sub
                          \/ pollElapsed(mem.entities[Head(toPoll)])
                               > poll_timeout_ms
                          \/ answer \in NonTerminalAnswers))
  /\ UNCHANGED <<call, sent, variant, parked, recorded, stored, now, alarm, toDispatch, pool, kvIdx, task,
                 resp, runs, crashes>>

\* mutant: the end of the tick saves the record without recounting progress
TickSaveStaleProgress ==
  /\ pc = "save"
  /\ stored' = mem
  /\ alarm' = TRUE
  /\ mem' = NoJob
  /\ pc' = "idle"
  /\ UNCHANGED <<call, sent, variant, clean, slow, parked, recorded, now, toDispatch,
                 toPoll, pool, kvIdx, task, resp, runs, crashes>>

\* mutant: the end of the tick hands a job whose entities are all terminal to
\* finalize instead of scheduling the next tick
TickSaveFinalizing ==
  /\ pc = "save"
  /\ IF Len(pendingEntities(mem)) = 0 /\ Len(dispatchedEntities(mem)) = 0
       THEN /\ stored' = finalize(mem)
            /\ mem' = finalize(mem)
            /\ pc' = "fin_log"
            /\ UNCHANGED alarm
       ELSE /\ stored' = updateProgress(mem)
            /\ alarm' = TRUE
            /\ mem' = NoJob
            /\ pc' = "idle"
  /\ UNCHANGED <<call, sent, variant, clean, slow, parked, recorded, now, toDispatch, toPoll, pool, kvIdx, task, resp,
                 runs, crashes>>

\* updateProgress, saveState, scheduleAlarm(poll_interval_ms), return true
TickSave ==
  /\ pc = "save"
  /\ stored' = updateProgress(mem)
  /\ alarm' = TRUE
  /\ mem' = NoJob
  /\ pc' = "idle"
  /\ UNCHANGED <<call, sent, variant, clean, slow, parked, recorded, now, toDispatch, toPoll, pool, kvIdx, task, resp,
                 runs, crashes>>

\* ------------------------------------- the recorder's conditional writes
\* maxRetries of the two update loops
StatusMaxRetries == 3
LogMaxRetries == 5

\* what one pass of an update loop meets: nothing ("quiet"), another writer
\* that moves the tip of the collection between the GET and the PUT
\* ("bumped"), a collection that is not there, a PUT answered with an error
\* that is no conflict, a GET or a PUT that throws
CasEvents == {"quiet", "bumped", "not_found", "update_error", "get_throws",
              "put_throws"}

\* PUT /collections/{id} with expect_tip: applied only while the tip is the
\* expected one
casPut(tip, expect) == IF tip = expect THEN "ok" ELSE "conflict"

\* mutant: every PUT that does not succeed is followed by another attempt
casAttemptRetriesAnyError(maxRetries, attempt, tip, ev) ==
  IF ev = "get_throws"
    THEN [entry |-> [read |-> Null, wrote |-> FALSE, expect |-> Null,
                     outcome |-> "get_throws"],
          again |-> TRUE, tip |-> tip, done |-> FALSE]
  ELSE IF ev = "not_found"
    THEN [entry |-> [read |-> Null, wrote |-> FALSE, expect |-> Null,
                     outcome |-> "not_found"],
          again |-> FALSE, tip |-> tip, done |-> FALSE]
  ELSE LET cid == tip
           tipAtPut == IF ev = "bumped" THEN tip + 1 ELSE tip
           outcome == CASE ev = "put_throws" -> "put_throws"
                        [] ev = "update_error" -> "update_error"
                        [] OTHER -> casPut(tipAtPut, cid)
       IN [entry |-> [read |-> cid, wrote |-> TRUE, expect |-> cid,
                      outcome |-> outcome],
           again |-> outcome # "ok",
           tip |-> IF outcome = "ok" THEN tipAtPut + 1 ELSE tipAtPut,
           done |-> outcome = "ok"]

\* one pass of the loop, attempt = 0 .. maxRetries - 1, tip the version of
\* the collection when the pass starts: GET the collection, PUT with
\* expect_tip = collection.cid; again: the loop goes on to its next pass
casAttempt(maxRetries, attempt, tip, ev) ==
  IF ev = "get_throws"
    THEN [entry |-> [read |-> Null, wrote |-> FALSE, expect |-> Null,
                     outcome |-> "get_throws"],
          again |-> TRUE, tip |-> tip, done |-> FALSE]
  ELSE IF ev = "not_found"
    THEN [entry |-> [read |-> Null, wrote |-> FALSE, expect |-> Null,
                     outcome |-> "not_found"],
          again |-> FALSE, tip |-> tip, done |-> FALSE]
  ELSE LET cid == tip
           tipAtPut == IF ev = "bumped" THEN tip + 1 ELSE tip
           outcome == CASE ev = "put_throws" -> "put_throws"
                        [] ev = "update_error" -> "update_error"
                        [] OTHER -> casPut(tipAtPut, cid)
       IN [entry |-> [read |-> cid, wrote |-> TRUE, expect |-> cid,
                      outcome |-> outcome],
           again |-> \/ outcome = "put_throws"
                     \/ outcome = "conflict" /\ attempt < maxRetries - 1,
           tip |-> IF outcome = "ok" THEN tipAtPut + 1 ELSE tipAtPut,
           done |-> outcome = "ok"]

\* for (let attempt = 0; attempt < maxRetries; attempt++): the passes made
\* (trace) and whether the write was applied (done)
RECURSIVE casLoop(_, _, _, _, _)
casLoop(maxRetries, script, attempt, tip, trace) ==
  IF attempt >= maxRetries
    THEN [done |-> FALSE, trace |-> trace]
    ELSE LET a == casAttempt(maxRetries, attempt, tip, script[attempt + 1])
         IN IF a.again
              THEN casLoop(maxRetries, script, attempt + 1, a.tip,
                           Append(trace, a.entry))
              ELSE [done |-> a.done, trace |-> Append(trace, a.entry)]

\* what the calls of the external recorder meet: "conflict" is a version
\* conflict on every attempt, "conflict_once" one on the first attempt only,
\* "throws" an exception on every attempt of the update loop,
\* "create_throws" an exception of the POST that creates the file
LogOutcomes == {"ok", "create_error", "create_throws", "not_found",
                "conflict", "conflict_once", "update_error", "throws"}
StatusOutcomes == {"ok", "not_found", "conflict", "conflict_once",
                   "update_error", "throws"}

\* the passes of an update loop under an outcome
ScriptOf(outcome, maxRetries) ==
  [i \in 1..maxRetries |->
     CASE outcome = "ok" -> "quiet"
       [] outcome = "conflict" -> "bumped"
       [] outcome = "conflict_once" -> IF i = 1 THEN "bumped" ELSE "quiet"
       [] outcome = "throws" -> "put_throws"
       [] OTHER -> outcome]

\* the update loop of writeJobLog and that of updateJobCollectionStatus
\* under each outcome
LogLoop ==
  [outcome \in LogOutcomes |->
     casLoop(LogMaxRetries, ScriptOf(outcome, LogMaxRetries), 0, 0, <<>>)]
StatusLoop ==
  [outcome \in StatusOutcomes |->
     casLoop(StatusMaxRetries, ScriptOf(outcome, StatusMaxRetries),
             0, 0, <<>>)]

\* writeJobLog: the file is created, then linked in the CAS loop; the loop
\* catches what its requests throw, the create request is not in a try
writeJobLog(outcome) ==
  [raised |-> outcome = "create_throws",
   linked |-> /\ outcome \notin {"create_error", "create_throws"}
              /\ LogLoop[outcome].done]

\* updateJobCollectionStatus: every path returns, nothing is thrown
updateJobCollectionStatus(outcome) ==
  [raised |-> FALSE, updated |-> StatusLoop[outcome].done]

\* mutant: writeLog without its try / catch
writeLogUncaught(logOutcome, statusOutcome) ==
  LET l == writeJobLog(logOutcome)
      u == updateJobCollectionStatus(statusOutcome)
  IN [raised |-> l.raised \/ u.raised,
      linked |-> l.linked,
      updated |-> ~l.raised /\ u.updated]

\* writeLog: writeJobLog, then updateJobCollectionStatus, inside try / catch
writeLog(logOutcome, statusOutcome) ==
  LET l == writeJobLog(logOutcome)
      u == updateJobCollectionStatus(statusOutcome)
  IN [raised |-> FALSE,
      linked |-> l.linked,
      updated |-> ~l.raised /\ u.updated]

\* writeLog after failJob or finalize: the external recorder; the job record
\* is not written again and no alarm is scheduled. An exception that left
\* writeLog would leave processAlarm, and the platform would deliver the alarm
\* again
WriteLog ==
  /\ pc \in {"exp_log", "fin_log"}
  /\ \E logOutcome \in LogOutcomes, statusOutcome \in StatusOutcomes :
       LET r == writeLog(logOutcome, statusOutcome)
       IN /\ recorded' = [written |-> TRUE, linked |-> r.linked,
                          updated |-> r.updated]
          /\ alarm' = IF r.raised THEN TRUE ELSE alarm
  /\ mem' = NoJob
  /\ pc' = "idle"
  /\ UNCHANGED <<call, sent, variant, clean, slow, parked, stored, now, toDispatch, toPoll, pool, kvIdx,
                 task, resp, runs, crashes>>

\* the object is evicted or the handler throws in the middle of a tick: the
\* in-memory state is lost and the platform delivers the alarm again
Crash ==
  /\ variant = "do"
  /\ pc # "idle"
  /\ crashes < MaxCrashes
  /\ crashes' = crashes + 1
  /\ mem' = NoJob
  /\ pc' = "idle"
  /\ toDispatch' = <<>>
  /\ toPoll' = <<>>
  /\ alarm' = TRUE
  /\ sent' = Uncounted
  /\ UNCHANGED <<call, variant, clean, slow, parked, recorded, stored, now, pool, kvIdx, task, resp, runs>>

NextDO ==
  \/ /\ variant = "do"
     /\ \E ids \in RequestLists, mr \in RequestRetries,
           cc \in RequestConcurrency :
          \E disc \in DiscoveryFor(ids) : handleStart(ids, disc, mr, cc)
  \/ AlarmFire
  \/ ProcessCheck
  \/ \E ok \in BOOLEAN : DispatchOne(ok)
  \/ \E answer \in PollAnswers : PollOne(answer)
  \/ TickSave
  \/ WriteLog
  \/ Crash

\* ------------------------------------------------ worker: POST /process
\* the processJob call that is running: its state object and its position
ThisRun == [pc |-> pc, mem |-> mem, pool |-> pool, kvIdx |-> kvIdx,
            task |-> task, clean |-> clean, slow |-> slow]

\* valid: the request has a signature header, parses, verifies, names
\* job_id, target and job_collection, and the API key is configured
\* the requests drawn while a processJob call is alive: one more call at
\* most, and only while the running call was started with the entity list and
\* max_retries of the request drawn for a job that exists (RequestLists,
\* RequestRetries) and with the default concurrency, so that the two calls
\* differ in their resolved config
CanOverlap ==
  /\ parked = NoRun
  /\ pc # "idle"
  /\ mem.order = <<"a">>
  /\ mem.config = BuildConfig(1, Null)

\* mutant: a discovery that finds no entity is not turned away
PostProcessNoEmptyCheck(valid, ids, disc, mr, cc) ==
  /\ variant = "kv"
  /\ pc = "idle" \/ CanOverlap
  /\ runs < MaxRuns
  /\ LET entityIds == ResolveEntityIds(ids, disc)
     IN IF ~valid \/ ~disc.ok
          THEN /\ resp' = "rejected"
               /\ UNCHANGED <<stored, mem, pc, runs, pool, kvIdx, task, parked,
                              recorded, clean, slow, sent>>
          ELSE /\ parked' = IF pc = "idle" THEN parked ELSE ThisRun
               /\ recorded' = NoRecord
               /\ stored' = InitialState(entityIds, mr, cc)
               /\ mem' = InitialState(entityIds, mr, cc)
               /\ sent' = IF pc = "idle" /\ parked = NoRun
                            THEN NoneSent(entityIds)
                            ELSE Uncounted
               /\ pc' = "kv_start"
               /\ pool' = IdlePool
               /\ kvIdx' = 0
               /\ task' = <<>>
               /\ runs' = runs + 1
               /\ resp' = "accepted"
               /\ clean' = TRUE
               /\ slow' = TRUE
  /\ UNCHANGED <<call, variant, now, alarm, toDispatch, toPoll, crashes>>

\* the request handler runs whenever no more than one processJob call is
\* alive; a processJob call that is suspended at an await when the request
\* arrives stays suspended (parked) while the new call starts
PostProcess(valid, ids, disc, mr, cc) ==
  /\ variant = "kv"
  /\ pc = "idle" \/ CanOverlap
  /\ runs < MaxRuns
  /\ LET entityIds == ResolveEntityIds(ids, disc)
     IN IF ~valid \/ ~disc.ok \/ Len(entityIds) = 0
          THEN /\ resp' = "rejected"
               /\ UNCHANGED <<stored, mem, pc, runs, pool, kvIdx, task, parked,
                              recorded, clean, slow, sent>>
          ELSE /\ parked' = IF pc = "idle" THEN parked ELSE ThisRun
               /\ recorded' = NoRecord
               /\ stored' = InitialState(entityIds, mr, cc)
               /\ mem' = InitialState(entityIds, mr, cc)
               /\ sent' = IF pc = "idle" /\ parked = NoRun
                            THEN NoneSent(entityIds)
                            ELSE Uncounted
               /\ pc' = "kv_start"
               /\ pool' = IdlePool
               /\ kvIdx' = 0
               /\ task' = <<>>
               /\ runs' = runs + 1
               /\ resp' = "accepted"
               /\ clean' = TRUE
               /\ slow' = TRUE
  /\ UNCHANGED <<call, variant, now, alarm, toDispatch, toPoll, crashes>>

\* the event loop resumes the other processJob call at its await; the call
\* that was running is suspended at its own await, or has returned
Resume ==
  /\ variant = "kv"
  /\ parked # NoRun
  /\ mem' = parked.mem
  /\ pc' = parked.pc
  /\ pool' = parked.pool
  /\ kvIdx' = parked.kvIdx
  /\ task' = parked.task
  /\ clean' = parked.clean
  /\ slow' = parked.slow
  /\ parked' = IF pc = "idle" THEN NoRun ELSE ThisRun
  /\ UNCHANGED <<call, sent, variant, recorded, stored, now, alarm, toDispatch, toPoll, resp, runs,
                 crashes>>

\* ------------------------------------------------------ worker: processJob
NewTask == [at |-> "new", polls |-> 0]

\* processJob up to the pool loop: status running, saved
KvStart ==
  /\ pc = "kv_start"
  /\ mem' = [mem EXCEPT !.status = "running"]
  /\ stored' = mem'
  /\ pool' = IdlePool
  /\ kvIdx' = 1
  /\ task' = [k \in DOMAIN mem.entities |-> NewTask]
  /\ pc' = "kv_add"
  /\ UNCHANGED <<call, sent, variant, clean, slow, parked, recorded, now, alarm, toDispatch, toPoll, resp, runs, crashes>>

\* PromisePool.add: queue the task when the pool is full, else start it;
\* processJob awaits the task either way
poolAdd(p, concurrency, id) ==
  IF p.running >= concurrency
    THEN [pool |-> [p EXCEPT !.queue = Append(@, id)], at |-> "queued"]
    ELSE [pool |-> [p EXCEPT !.running = @ + 1], at |-> "loop"]

KvAdd ==
  /\ pc = "kv_add"
  /\ kvIdx <= Len(mem.order)
  /\ LET id == mem.order[kvIdx]
         r == poolAdd(pool, mem.config.concurrency, id)
     IN /\ pool' = r.pool
        /\ task' = [task EXCEPT ![id].at = r.at]
  /\ pc' = "kv_wait"
  /\ UNCHANGED <<call, sent, variant, clean, slow, parked, recorded, stored, mem, now, alarm, toDispatch, toPoll, kvIdx,
                 resp, runs, crashes>>

\* processEntity, "Exhausted retries": status error, updateProgress
exhaust(state, entityId) ==
  updateProgress([state EXCEPT !.entities[entityId].status = "error"])

\* processEntity at the loop test: the next attempt, or exhausted
KvLoop(id) ==
  /\ pc = "kv_wait"
  /\ task[id].at = "loop"
  /\ IF mem.entities[id].attempts < mem.config.max_retries
       THEN /\ mem' = updateProgress(
                        [mem EXCEPT !.entities[id].attempts = @ + 1,
                                    !.entities[id].status = "dispatched"])
            /\ task' = [task EXCEPT ![id].at = "dispatch"]
       ELSE /\ mem' = exhaust(mem, id)
            /\ task' = [task EXCEPT ![id].at = "finally"]
  /\ stored' = mem'
  /\ UNCHANGED <<call, sent, variant, clean, slow, parked, recorded, pc, now, alarm,
                 toDispatch, toPoll, pool, kvIdx, resp, runs, crashes>>

\* processEntity after an attempt failed with error why
kvAttemptFailed(state, entityId, why) ==
  LET s == [state EXCEPT !.entities[entityId].err = why]
  IN IF s.entities[entityId].attempts >= s.config.max_retries
       THEN [state |-> exhaust(s, entityId), save |-> TRUE, at |-> "finally"]
       ELSE [state |-> s, save |-> FALSE, at |-> "loop"]

\* dispatchToSubAgent returned
KvDispatch(id, ok) ==
  /\ pc = "kv_wait"
  /\ task[id].at = "dispatch"
  /\ IF ok
       THEN /\ mem' = updateProgress(
                        [mem EXCEPT !.entities[id].sub = TRUE,
                                    !.entities[id].status = "polling"])
            /\ stored' = mem'
            /\ task' = [task EXCEPT ![id] = [at |-> "poll", polls |-> 0]]
       ELSE LET r == kvAttemptFailed(mem, id, "dispatch")
            IN /\ mem' = r.state
               /\ stored' = IF r.save THEN r.state ELSE stored
               /\ task' = [task EXCEPT ![id].at = r.at]
  /\ clean' = (clean /\ ok)
  /\ slow' = (slow /\ ok)
  /\ sent' = invoke(sent, id)
  /\ UNCHANGED <<call, variant, parked, recorded, pc, now, alarm, toDispatch, toPoll,
                 pool, kvIdx, resp, runs, crashes>>

\* one pass of the loop of pollSubAgentStatus: a status fetch, then either
\* the answer ends the call or the call sleeps and tests its timeout;
\* elapsed: the timeout has passed at that test (it has after PollChecks
\* fetches)
KvPoll(id, answer, elapsed) ==
  /\ pc = "kv_wait"
  /\ task[id].at = "poll"
  /\ IF answer = "done"
       THEN /\ mem' = updateProgress(
                        [mem EXCEPT !.entities[id].status = "done",
                                    !.entities[id].err = "none"])
            /\ stored' = mem'
            /\ task' = [task EXCEPT ![id].at = "finally"]
     ELSE IF answer = "error" \/ elapsed \/ task[id].polls + 1 >= PollChecks
       THEN LET r == kvAttemptFailed(mem, id,
                       IF answer = "error" THEN "remote" ELSE "timeout")
            IN /\ mem' = r.state
               /\ stored' = IF r.save THEN r.state ELSE stored
               /\ task' = [task EXCEPT ![id].at = r.at]
     ELSE /\ task' = [task EXCEPT ![id].polls = @ + 1]
          /\ UNCHANGED <<mem, stored>>
  /\ clean' = (clean /\ answer = "done")
  /\ slow' = (slow /\ answer \in NonTerminalAnswers)
  /\ UNCHANGED <<call, sent, variant, parked, recorded, pc, now, alarm, toDispatch, toPoll, pool, kvIdx,
                 resp, runs, crashes>>

\* PromisePool: running--, then runNext()
poolRelease(p, concurrency) ==
  LET q == [p EXCEPT !.running = @ - 1]
  IN IF Len(q.queue) > 0 /\ q.running < concurrency
       THEN [pool |-> [running |-> q.running + 1, queue |-> Tail(q.queue)],
             next |-> <<Head(q.queue)>>]
       ELSE [pool |-> q, next |-> <<>>]

\* the task of an entity has returned: the pool slot is released and the
\* add that processJob awaits resolves
KvTaskEnd(id) ==
  /\ pc = "kv_wait"
  /\ task[id].at = "finally"
  /\ LET r == poolRelease(pool, mem.config.concurrency)
     IN /\ pool' = r.pool
        /\ task' = [k \in DOMAIN task |->
                      IF k = id THEN [task[k] EXCEPT !.at = "finished"]
                      ELSE IF k \in Range(r.next)
                        THEN [task[k] EXCEPT !.at = "loop"]
                      ELSE task[k]]
  /\ IF id = mem.order[kvIdx]
       THEN pc' = "kv_add" /\ kvIdx' = kvIdx + 1
       ELSE UNCHANGED <<pc, kvIdx>>
  /\ UNCHANGED <<call, sent, variant, clean, slow, parked, recorded, stored, mem, now, alarm, toDispatch, toPoll, resp,
                 runs, crashes>>

\* processJob, "Calculate final result"
kvFinalize(state) ==
  LET s == updateProgress(state)
      n == Len(s.order)
      failed == s.progress.error
      status == IF failed = n THEN "error" ELSE "done"
  IN [s EXCEPT !.status = status,
               !.completed_at = now,
               !.result = [total |-> n, succeeded |-> s.progress.done,
                           failed |-> failed],
               !.error = IF status = "error" THEN "ALL_FAILED" ELSE @]

\* pool.drain() returns once nothing runs and nothing is queued
KvDrain ==
  /\ pc = "kv_add"
  /\ kvIdx > Len(mem.order)
  /\ pool.running = 0
  /\ Len(pool.queue) = 0
  /\ mem' = kvFinalize(mem)
  /\ pc' = "kv_log"
  /\ UNCHANGED <<call, sent, variant, clean, slow, parked, recorded, stored, now, alarm, toDispatch, toPoll, pool, kvIdx,
                 task, resp, runs, crashes>>

\* processJob, "Write log": writeJobLog inside try / catch
kvWriteLog(logOutcome) ==
  [raised |-> FALSE, linked |-> writeJobLog(logOutcome).linked]

\* an exception that left the try would reject processJob before its final
\* save
KvWriteLog ==
  /\ pc = "kv_log"
  /\ \E logOutcome \in LogOutcomes :
       LET r == kvWriteLog(logOutcome)
       IN /\ recorded' = [written |-> TRUE, linked |-> r.linked,
                          updated |-> FALSE]
          /\ pc' = IF r.raised THEN "idle" ELSE "kv_save"
          /\ mem' = IF r.raised THEN NoJob ELSE mem
          /\ pool' = IF r.raised THEN IdlePool ELSE pool
          /\ kvIdx' = IF r.raised THEN 0 ELSE kvIdx
          /\ task' = IF r.raised THEN <<>> ELSE task
  /\ UNCHANGED <<call, sent, variant, clean, slow, parked, stored, now, alarm, toDispatch, toPoll,
                 resp, runs, crashes>>

\* "Save final state"
KvFinalSave ==
  /\ pc = "kv_save"
  /\ stored' = mem
  /\ mem' = NoJob
  /\ pc' = "idle"
  /\ pool' = IdlePool
  /\ kvIdx' = 0
  /\ task' = <<>>
  /\ UNCHANGED <<call, sent, variant, clean, slow, parked, recorded, now, alarm, toDispatch, toPoll, resp, runs, crashes>>

NextKV ==
  \/ /\ variant = "kv" /\ (pc = "idle" \/ CanOverlap) /\ runs < MaxRuns
     /\ \E valid \in RequestValid, ids \in RequestLists, mr \in RequestRetries,
           cc \in RequestConcurrency :
          \E disc \in DiscoveryFor(ids) : PostProcess(valid, ids, disc, mr, cc)
  \/ KvStart
  \/ KvAdd
  \/ \E id \in DOMAIN task : KvLoop(id)
  \/ \E id \in DOMAIN task, ok \in BOOLEAN : KvDispatch(id, ok)
  \/ \E id \in DOMAIN task, answer \in PollAnswers,
        elapsed \in BOOLEAN : KvPoll(id, answer, elapsed)
  \/ \E id \in DOMAIN task : KvTaskEnd(id)
  \/ KvDrain
  \/ KvWriteLog
  \/ KvFinalSave
  \/ Resume

Next == NextDO \/ NextKV \/ AdvanceTime

Spec == Init /\ [][Next]_vars

\* the Durable Object when it takes other events while a handleStart call
\* awaits discoverEntities (under Spec each handleStart call runs to its end
\* before the next event)
NextOverlap ==
  \/ handleStartDiscover
  \/ \E disc \in DiscoveryResults : handleStartDiscovered(disc)

OverlapInit == Init /\ variant = "do"

\* ------------------------------------------------------ discoverEntities
MaxPages == 2
limit == 1000

\* what GET /collections/{id}/entities answers for one offset: an error, no
\* data, or a page of entities with its has_more flag
Pages ==
  {[kind |-> "error", entities |-> <<>>, has_more |-> FALSE],
   [kind |-> "nodata", entities |-> <<>>, has_more |-> FALSE]}
    \cup {[kind |-> "ok", entities |-> l, has_more |-> h] :
             l \in IdLists, h \in BOOLEAN}

\* beyond the pages drawn the collection has no more entities
EndPage == [kind |-> "ok", entities |-> <<>>, has_more |-> FALSE]

\* the server: the page that starts at the offset asked for
PageAt(pages, offset) ==
  IF offset \div limit + 1 <= Len(pages) THEN pages[offset \div limit + 1]
  ELSE EndPage

\* the caller gets no list from a call that throws
NoList == [thrown |-> TRUE]

\* mutant: a page request that fails ends the listing with what was collected
discoverPageErrorEndsList(c) ==
  LET r == PageAt(c.pages, c.offset)
      asked == Append(c.asked, c.offset)
  IN IF r.kind # "ok"
       THEN [c EXCEPT !.asked = asked, !.at = "returned",
                      !.result = c.entityIds]
     ELSE IF ~r.has_more
       THEN [c EXCEPT !.asked = asked, !.at = "returned",
                      !.entityIds = @ \o r.entities,
                      !.result = c.entityIds \o r.entities]
     ELSE [c EXCEPT !.asked = asked,
                    !.entityIds = @ \o r.entities,
                    !.offset = @ + limit]

\* one pass of the while loop of discoverEntities
discoverPage(c) ==
  LET r == PageAt(c.pages, c.offset)
      asked == Append(c.asked, c.offset)
  IN IF r.kind # "ok"
       THEN [c EXCEPT !.asked = asked, !.at = "thrown", !.result = NoList]
     ELSE IF ~r.has_more
       THEN [c EXCEPT !.asked = asked, !.at = "returned",
                      !.entityIds = @ \o r.entities,
                      !.result = c.entityIds \o r.entities]
     ELSE [c EXCEPT !.asked = asked,
                    !.entityIds = @ \o r.entities,
                    !.offset = @ + limit]

\* discoverEntities is called on a collection of one to MaxPages pages
DiscoverInit ==
  /\ NoJobRuns
  /\ call \in {[fn |-> "discoverEntities", pages |-> p, entityIds |-> <<>>,
                 offset |-> 0, asked |-> <<>>, at |-> "loop",
                 result |-> NoList] :
                  p \in UNION {[1..n -> Pages] : n \in 1..MaxPages}}

DiscoverPage ==
  /\ call.fn = "discoverEntities"
  /\ call.at = "loop"
  /\ call' = discoverPage(call)
  /\ UNCHANGED jobVars

DiscoverNext == DiscoverPage

DiscoverSpec == DiscoverInit /\ [][DiscoverNext]_vars

\* ------------------------------- one entity, handled by both deployments
MaxAttempts == 3

\* what one attempt meets: the dispatch is rejected; it is accepted and the
\* sub-job ends done; it is accepted and the sub-job ends in error; it is
\* accepted and no terminal answer comes before poll_timeout_ms
AttemptOutcomes == {"rejected", "done", "error", "timeout"}
Scripts == [1..MaxAttempts -> AttemptOutcomes]

OneEntityJob(mr) == InitialState(<<"a">>, mr, Null)

\* the Durable Object: the tick that dispatches the pending entity, then the
\* tick whose poll settles the attempt
doAttempt(state, entityId, outcome) ==
  LET d == dispatchEntity(state, entityId, outcome # "rejected")
  IN IF outcome = "rejected" THEN d
     ELSE IF outcome = "timeout"
       THEN [d EXCEPT !.entities[entityId] =
               failAttempt(d, d.entities[entityId], "timeout")]
     ELSE pollEntity(d, entityId, outcome)

\* the worker: one pass of the while loop of processEntity
kvAttempt(state, entityId, outcome) ==
  LET s == updateProgress(
             [state EXCEPT !.entities[entityId].attempts = @ + 1,
                           !.entities[entityId].status = "dispatched"])
      p == updateProgress(
             [s EXCEPT !.entities[entityId].sub = TRUE,
                       !.entities[entityId].status = "polling"])
  IN IF outcome = "rejected"
       THEN kvAttemptFailed(s, entityId, "dispatch").state
     ELSE IF outcome = "done"
       THEN updateProgress([p EXCEPT !.entities[entityId].status = "done",
                                     !.entities[entityId].err = "none"])
     ELSE kvAttemptFailed(p, entityId,
                          IF outcome = "error" THEN "remote" ELSE "timeout").state

\* the same config and the same outcomes, attempt by attempt, for both
EntityInit ==
  /\ NoJobRuns
  /\ call \in {[fn |-> "entity", script |-> sc, do |-> OneEntityJob(mr),
                 kv |-> OneEntityJob(mr)] :
                  mr \in RetryOptions, sc \in Scripts}

\* the Durable Object dispatches the entity whenever it is pending
EntityDoAttempt ==
  /\ call.fn = "entity"
  /\ call.do.entities["a"].status = "pending"
  /\ call.do.entities["a"].attempts < MaxAttempts
  /\ call' = [call EXCEPT !.do =
                doAttempt(@, "a", call.script[@.entities["a"].attempts + 1])]
  /\ UNCHANGED jobVars

\* processEntity: the next pass of the loop, or "Exhausted retries"
EntityKvAttempt ==
  /\ call.fn = "entity"
  /\ call.kv.entities["a"].status \notin Terminal
  /\ call.kv.entities["a"].attempts < MaxAttempts
  /\ call' = [call EXCEPT !.kv =
                IF @.entities["a"].attempts < @.config.max_retries
                  THEN kvAttempt(@, "a",
                                 call.script[@.entities["a"].attempts + 1])
                  ELSE exhaust(@, "a")]
  /\ UNCHANGED jobVars

EntityNext == EntityDoAttempt \/ EntityKvAttempt

EntitySpec == EntityInit /\ [][EntityNext]_vars

OverlapNext == NextDO \/ NextOverlap \/ AdvanceTime

OverlapSpec == OverlapInit /\ [][OverlapNext]_vars

\* every handler step that is enabled is eventually run, every remote call
\* returns and time advances; crashes and new requests are not required
FairSpec ==
  /\ Spec
  /\ WF_vars(AdvanceTime)
  /\ WF_vars(AlarmFire)
  /\ WF_vars(ProcessCheck)
  /\ WF_vars(\E ok \in BOOLEAN : DispatchOne(ok))
  /\ WF_vars(\E answer \in PollAnswers : PollOne(answer))
  /\ WF_vars(TickSave)
  /\ WF_vars(WriteLog)
  /\ WF_vars(KvStart)
  /\ WF_vars(KvAdd)
  /\ WF_vars(\E id \in DOMAIN task : KvLoop(id))
  /\ WF_vars(\E id \in DOMAIN task, ok \in BOOLEAN : KvDispatch(id, ok))
  /\ WF_vars(\E id \in DOMAIN task, answer \in PollAnswers,
                elapsed \in BOOLEAN : KvPoll(id, answer, elapsed))
  /\ WF_vars(\E id \in DOMAIN task : KvTaskEnd(id))
  /\ WF_vars(KvDrain)
  /\ WF_vars(KvWriteLog)
  /\ WF_vars(KvFinalSave)

\* ================================================================== claims
AllTerminal(state) == \A k \in DOMAIN state.entities :
                         state.entities[k].status \in Terminal

\* C1: in every persisted job record pending + dispatched + done + error =
\* total = the number of keys of entities, whatever entity_ids list intake
\* accepted.
C1_ProgressMatchesEntities ==
  stored # NoJob =>
    /\ stored.progress.pending + stored.progress.dispatched
         + stored.progress.done + stored.progress.error = stored.progress.total
    /\ stored.progress.total = Cardinality(DOMAIN stored.entities)

\* C2: once an entity is done or error, no later tick of the Durable Object
\* changes its status, neither in the persisted record nor in the state a
\* tick works on, a tick re-run after a crash included.
C2_TerminalEntityStable ==
  [][variant = "do" =>
       /\ (stored # NoJob /\ stored' # NoJob) =>
            \A k \in DOMAIN stored.entities :
              stored.entities[k].status \in Terminal =>
                stored'.entities[k].status = stored.entities[k].status
       /\ (stored # NoJob /\ mem' # NoJob) =>
            \A k \in DOMAIN stored.entities :
              stored.entities[k].status \in Terminal =>
                mem'.entities[k].status = stored.entities[k].status]_vars

C2_Witness ==
  /\ variant = "do"
  /\ crashes > 0
  /\ pc = "save"
  /\ \E k \in DOMAIN stored.entities : stored.entities[k].status = "done"
  /\ \E k \in DOMAIN stored.entities :
       /\ stored.entities[k].status \in InFlight
       /\ mem.entities[k].status \in Terminal

\* C3: attempts <= config.max_retries for every entity of every persisted
\* record, for every max_retries intake resolves.
C3_AttemptsWithinMaxRetries ==
  stored # NoJob =>
    \A k \in DOMAIN stored.entities :
      stored.entities[k].attempts <= stored.config.max_retries

\* C4: a tick never holds more than config.concurrency entities in status
\* dispatched or polling, and the PromisePool of the worker never runs more
\* than config.concurrency tasks at a time.
C4_ConcurrencyBound ==
  /\ mem # NoJob =>
       CountStatus(mem.entities, InFlight) <= mem.config.concurrency
  /\ stored # NoJob =>
       CountStatus(stored.entities, InFlight) <= stored.config.concurrency
  /\ (variant = "kv" /\ mem # NoJob) =>
       /\ pool.running <= mem.config.concurrency
       /\ Cardinality({k \in DOMAIN task :
                         task[k].at \in {"loop", "dispatch", "poll", "finally"}})
            <= mem.config.concurrency

C4_Witness ==
  /\ variant = "do"
  /\ pc = "save"
  /\ CountStatus(stored.entities, InFlight) > 0
  /\ CountStatus(mem.entities, InFlight) = mem.config.concurrency
  /\ CountStatus(mem.entities, {"pending"}) > 0

\* C5: when the Finalizer has run, job status is error if and only if every
\* entity is in status error, and done otherwise.
C5_FinalizerStatus ==
  pc \in {"fin_log", "kv_log"} =>
    /\ mem.status =
         (IF CountStatus(mem.entities, {"error"}) = Cardinality(DOMAIN mem.entities)
            THEN "error" ELSE "done")
    /\ pc = "fin_log" => stored = mem

C5_Witness ==
  /\ pc = "fin_log"
  /\ mem.status = "done"
  /\ CountStatus(mem.entities, {"error"}) > 0
  /\ CountStatus(mem.entities, {"done"}) > 0

RepeatedIntake ==
  /\ stored # NoJob
  /\ \E ids \in RequestLists, mr \in RequestRetries, cc \in RequestConcurrency :
       \/ handleStart(ids, NoDiscovery, mr, cc)
       \/ PostProcess(TRUE, ids, NoDiscovery, mr, cc)

\* C7: a second intake with the job_id of a job that exists returns
\* accepted:true, leaves the stored record unchanged and starts no second
\* processing run.
C7_DuplicateIntakeIdempotent ==
  [][RepeatedIntake =>
       (resp' = "accepted" /\ stored' = stored /\ runs' = runs)]_vars

Rank(status) ==
  CASE status = "pending" -> 0 [] status = "running" -> 1 [] OTHER -> 2

\* C8: job status only moves forward, pending -> running -> {done, error},
\* and once done or error no later tick or intake changes it.
C8_StatusForwardOnly ==
  [][stored # NoJob =>
       /\ stored' # NoJob
       /\ Rank(stored'.status) >= Rank(stored.status)
       /\ stored.status \in Terminal => stored'.status = stored.status]_vars

\* C9: under fairness every accepted job eventually reaches status done or
\* error.
C9_EventuallyTerminal ==
  (stored # NoJob) ~> (stored # NoJob /\ stored.status \in Terminal)

\* C10: the tick in which the last entity becomes done or error finalizes
\* the job in that tick and schedules no further tick; every other tick that
\* reaches its save step schedules the next tick.
C10_FinalizeInSameTick ==
  [][(pc = "save" /\ pc' = "idle" /\ crashes' = crashes) =>
       IF AllTerminal(mem)
         THEN ~alarm' /\ stored'.status \in Terminal
         ELSE alarm' /\ stored'.status = "running"]_vars

\* C10 (amended): a tick that is not expired and starts with every entity
\* done or error hands the job to finalize in that tick and schedules no
\* further tick; every other tick that is not expired and runs to its end,
\* the tick in which the last entity becomes done or error included, saves
\* the record with job status running and schedules the next tick.
C10_FinalizeOnNextTick ==
  /\ [][(variant = "do" /\ pc = "check" /\ pc' # "check"
           /\ crashes' = crashes /\ ~isExpired(mem))
          => IF AllTerminal(mem)
               THEN pc' = "fin_log" /\ ~alarm' /\ stored'.status \in Terminal
               ELSE pc' \in {"dispatch", "poll", "save"} /\ stored' = stored]_vars
  /\ [][(pc = "save" /\ pc' # "save" /\ crashes' = crashes)
          => (pc' = "idle" /\ alarm' /\ stored'.status = "running")]_vars
  /\ [][(pc = "fin_log" /\ pc' # "fin_log" /\ crashes' = crashes)
          => ~alarm']_vars

\* the tick that made the last entity terminal has ended: the job is still
\* running and the next tick is scheduled
C10_Witness ==
  /\ variant = "do"
  /\ pc = "idle"
  /\ alarm
  /\ crashes = 0
  /\ stored # NoJob
  /\ stored.status = "running"
  /\ AllTerminal(stored)
  /\ \E k \in DOMAIN stored.entities : stored.entities[k].status = "done"

\* C11: for one job_id at most one controller run works on the job record
\* at a time: no second run is alive while a run is between its read and
\* its last write of the record.
C11_OneRunAtATime == parked = NoRun \/ pc = "idle"

\* C12: whenever the external log write is under way (after finalize, after
\* failJob, or in processJob), the stored job record already has the
\* terminal status done or error.
C12_TerminalPersistedBeforeLog ==
  pc \in {"fin_log", "exp_log", "kv_log"} =>
    (stored # NoJob /\ stored.status \in Terminal)

\* C13: whatever the external recorder meets (a version conflict on every
\* attempt, an update error, a missing collection, a thrown exception), the
\* step that runs it leaves the stored job record as it was and finalization
\* goes on as after a successful write: the tick ends with no alarm
\* scheduled, processJob goes to its final save with its state unchanged.
C13_RecorderNeverFailsJob ==
  /\ [][(pc \in {"exp_log", "fin_log"} /\ recorded' # recorded)
          => (stored' = stored /\ pc' = "idle" /\ ~alarm')]_vars
  /\ [][(pc = "kv_log" /\ recorded' # recorded /\ pc' # "kv_start")
          => (stored' = stored /\ mem' = mem /\ pc' = "kv_save")]_vars

\* the recorder has run and failed; the job record keeps its terminal status
C13_Witness ==
  /\ variant = "do"
  /\ pc = "idle"
  /\ recorded.written
  /\ ~recorded.linked
  /\ ~recorded.updated
  /\ ~alarm
  /\ stored.status = "done"
  /\ stored.result.succeeded > 0

\* a request intake has to turn away: it fails a check of POST /process, its
\* discovery throws, or it names no entity and discovery finds none
BadRequest(valid, ids, disc) ==
  ~valid \/ ~disc.ok \/ Len(ResolveEntityIds(ids, disc)) = 0

\* C14: an intake of such a request answers accepted:false, writes no job
\* record and starts or schedules no processing (the Durable Object answers a
\* request for a job that exists before it looks at the request).
C14_RejectedIntakeNoEffect ==
  [][/\ (variant = "do" /\ stored = NoJob) =>
          \A ids \in RequestLists, mr \in RequestRetries,
             cc \in RequestConcurrency :
            \A disc \in DiscoveryFor(ids) :
              (BadRequest(TRUE, ids, disc) /\ handleStart(ids, disc, mr, cc))
                => (resp' = "rejected"
                      /\ UNCHANGED <<stored, alarm, runs, pc, mem>>)
     /\ (variant = "kv" /\ (pc = "idle" \/ CanOverlap) /\ runs < MaxRuns) =>
          \A valid \in RequestValid, ids \in RequestLists,
             mr \in RequestRetries, cc \in RequestConcurrency :
            \A disc \in DiscoveryFor(ids) :
              (BadRequest(valid, ids, disc)
                 /\ PostProcess(valid, ids, disc, mr, cc))
                => (resp' = "rejected"
                      /\ UNCHANGED <<stored, alarm, runs, pc, mem, parked,
                                     pool, task>>)]_vars

\* a discovery that failed or found nothing has been turned away
C14_Witness ==
  /\ variant = "do"
  /\ resp = "rejected"
  /\ stored = NoJob
  /\ ~alarm
  /\ pc = "idle"
  /\ runs = 0

RejectedDispatchOutcome(e, max_retries) ==
  /\ e.err = "dispatch"
  /\ e.attempts <= max_retries
  /\ e.attempts < max_retries => e.status = "pending"
  /\ e.attempts = max_retries => e.status = "error"

\* C16: a rejected or failed dispatch leaves the entity pending, with its
\* error set, while attempts < max_retries, and makes it error exactly when
\* attempts reaches max_retries (so it ends with attempts = max_retries); a
\* job whose entities all ended so is finalized with status error.
C16_RejectedDispatchRetries ==
  /\ [][(variant = "do" /\ pc = "dispatch" /\ crashes' = crashes
           /\ toDispatch' = Tail(toDispatch)
           /\ mem'.entities[Head(toDispatch)].status # "dispatched")
          => RejectedDispatchOutcome(mem'.entities[Head(toDispatch)],
                                     mem.config.max_retries)]_vars
  /\ [][\A id \in DOMAIN task :
          (variant = "kv" /\ pc = "kv_wait" /\ pc' = "kv_wait"
             /\ parked' = parked /\ task[id].at = "dispatch"
             /\ task'[id].at \in {"loop", "finally"})
            => RejectedDispatchOutcome(mem'.entities[id],
                                       mem.config.max_retries)]_vars
  /\ [][(pc' \in {"fin_log", "kv_log"} /\ pc' # pc
           /\ \A k \in DOMAIN mem'.entities : mem'.entities[k].status = "error")
          => mem'.status = "error"]_vars


\* the run is one of accepted dispatches and of status checks that never
\* came back terminal, before and after the step, with max_retries = 2
SlowRun ==
  /\ slow /\ slow'
  /\ mem # NoJob /\ mem.config.max_retries = 2

\* a tick dispatches the entity at the head of its list
DispatchStep ==
  /\ variant = "do" /\ pc = "dispatch" /\ crashes' = crashes
  /\ toDispatch' = Tail(toDispatch)

\* a tick polls the entity at the head of its list after poll_timeout_ms
TimeoutStep ==
  /\ variant = "do" /\ pc = "poll" /\ crashes' = crashes
  /\ toPoll' = Tail(toPoll)
  /\ mem.entities[Head(toPoll)].sub
  /\ pollElapsed(mem.entities[Head(toPoll)]) > poll_timeout_ms

\* a step of the processEntity call of id that leaves position at
KvStep(id, at) ==
  /\ variant = "kv" /\ pc = "kv_wait" /\ pc' = "kv_wait"
  /\ parked' = parked /\ runs' = runs
  /\ task[id].at = at /\ task'[id].at # at

C18_AttemptsNeverDecrease ==
  [][(stored # NoJob /\ stored' # NoJob)
       => \A id \in DOMAIN stored.entities \cap DOMAIN stored'.entities :
            stored'.entities[id].attempts >= stored.entities[id].attempts]_vars


\* a step of a tick, a dispatch, a poll, an expiry or a finalization: any
\* step but the intake of a request and the passing of time
NotIntake == runs' = runs /\ resp' = resp /\ now' = now

\* C19: after creation no tick, dispatch, poll, expiry or finalization
\* changes the resolved config or the set of entity identifiers of the job
\* record.
C19_CreationFieldsFrozen ==
  [][(NotIntake /\ stored # NoJob /\ stored' # NoJob)
       => /\ stored'.config = stored.config
          /\ DOMAIN stored'.entities = DOMAIN stored.entities
          /\ stored'.order = stored.order]_vars


\* C20: in the worker, with concurrency >= 2 and at least two entities, a
\* second entity is dispatched while the first is still in flight: once the
\* sub-agent has accepted the first entity and it is polled, the second
\* entity has had its first dispatch attempt.
C20_SecondDispatchedWhileFirstInFlight ==
  (/\ variant = "kv" /\ pc = "kv_wait"
   /\ mem.config.concurrency >= 2
   /\ Len(mem.order) >= 2
   /\ mem.entities[mem.order[1]].status = "polling")
    => mem.entities[mem.order[2]].attempts >= 1


\* a tick polls or timeout-checks the in-flight entity at the head of its list
PollStep ==
  /\ variant = "do" /\ pc = "poll" /\ crashes' = crashes
  /\ toPoll' = Tail(toPoll)
  /\ mem.entities[Head(toPoll)].sub

\* the entity after a poll that reported a failure or timed out, as stated:
\* pending with its sub_job_id cleared while attempts < max_retries, else
\* error
FailedPollOutcome(e, max_retries) ==
  IF e.attempts < max_retries
    THEN e.status = "pending" /\ ~e.sub
    ELSE e.status = "error"

\* the poll of the processEntity call of id ended with a failure or a timeout
KvFailedPoll(id) ==
  /\ KvStep(id, "poll")
  /\ task'[id].at \in {"loop", "finally"}
  /\ mem'.entities[id].status # "done"

C22_NonTerminalPollNoChange ==
  /\ [][(variant = "do" /\ pc = "poll"
           /\ mem.entities[Head(toPoll)].sub
           /\ pollElapsed(mem.entities[Head(toPoll)]) <= poll_timeout_ms)
          => \A answer \in NonTerminalAnswers :
               pollEntity(mem, Head(toPoll), answer) = mem]_vars
  /\ [][\A id \in DOMAIN task :
          (variant = "kv" /\ pc = "kv_wait" /\ pc' = "kv_wait"
             /\ parked' = parked /\ runs' = runs
             /\ task[id].at = "poll" /\ task'[id].at = "poll"
             /\ task'[id].polls = task[id].polls + 1)
            => (mem' = mem /\ stored' = stored)]_vars

\* an in-flight entity of the Durable Object has been polled before its
\* timeout and is still in flight, its attempt not consumed (slow and not
\* clean: the only entity of the job was polled and the answer was not
\* terminal)
C22_Witness ==
  /\ variant = "do" /\ pc \in {"poll", "save"} /\ mem # NoJob
  /\ mem.config.max_retries = 1
  /\ \E id \in DOMAIN mem.entities :
       /\ mem.entities[id].status = "dispatched"
       /\ mem.entities[id].sub
       /\ mem.entities[id].attempts = 1
       /\ id \notin Range(toPoll)
  /\ Cardinality(DOMAIN mem.entities) = 1
  /\ slow /\ ~clean


FirstPending(state) ==
  LET pend == SelectSeq(state.order,
                        LAMBDA id : state.entities[id].status = "pending")
      in_flight == Cardinality({id \in DOMAIN state.entities :
                      state.entities[id].status \in {"dispatched", "polling"}})
      room == IF state.config.concurrency - in_flight > 0
                THEN state.config.concurrency - in_flight ELSE 0
  IN SubSeq(pend, 1, Min(Len(pend), room))

\* a non-expired tick with work left draws its dispatch list from the record
\* it started with: the list is FirstPending of that record
TickSelectsFirstPending ==
  (variant = "do" /\ pc = "check" /\ crashes' = crashes
     /\ pc' \in {"dispatch", "poll", "save"})
    => toDispatch' = FirstPending(mem)

\* C24 as stated: the entities dispatched in a tick are the first
\* min(number pending, max(0, concurrency - in_flight)) pending entities in
\* the insertion order of the entity map, the order in which the intake
\* inserted the ids.
C24_SelectionInInsertionOrder ==
  /\ [][TickSelectsFirstPending]_vars
  /\ [][(variant = "do" /\ stored = NoJob) =>
          \A ids \in RequestLists, mr \in RequestRetries,
             cc \in RequestConcurrency :
            \A disc \in DiscoveryFor(ids) :
              (handleStart(ids, disc, mr, cc) /\ stored' # NoJob)
                => stored'.order =
                     FirstInsertions(ResolveEntityIds(ids, disc))]_vars

\* C24 (amended): the entities dispatched in a tick are the first
\* min(number pending, max(0, concurrency - in_flight)) pending entities in
\* the enumeration order of the entity map, which holds each inserted id
\* once, the integer-like ids before all others and the others in insertion
\* order.
C24_SelectionInMapOrder ==
  /\ [][TickSelectsFirstPending]_vars
  /\ [][(variant = "do" /\ stored = NoJob) =>
          \A ids \in RequestLists, mr \in RequestRetries,
             cc \in RequestConcurrency :
            \A disc \in DiscoveryFor(ids) :
              (handleStart(ids, disc, mr, cc) /\ stored' # NoJob)
                => LET order == stored'.order
                       inserted == FirstInsertions(ResolveEntityIds(ids, disc))
                   IN /\ Range(order) = Range(inserted)
                      /\ Len(order) = Len(inserted)
                      /\ \A i, j \in 1..Len(order) :
                           (i < j /\ IntKey(order[j]) >= 0)
                             => /\ IntKey(order[i]) >= 0
                                /\ IntKey(order[i]) < IntKey(order[j])
                      /\ SelectSeq(order, LAMBDA x : IntKey(x) < 0) =
                           SelectSeq(inserted, LAMBDA x : IntKey(x) < 0)]_vars

\* a tick of a job with two pending entities and one slot has selected the
\* first of the map, the integer-like id
C24_Witness ==
  /\ variant = "do" /\ pc = "dispatch" /\ mem # NoJob
  /\ mem.order = <<"1", "a">>
  /\ mem.config.concurrency = 1
  /\ toDispatch = <<"1">>
  /\ mem.entities["a"].status = "pending"


\* the entities of a record that are in flight
InFlightIds(state) ==
  {id \in DOMAIN state.entities :
     state.entities[id].status \in {"dispatched", "polling"}}

\* C25: every entity that is in flight at the start of a non-expired tick is
\* timeout-checked or polled in that tick: the tick's poll list holds each
\* of them once, the dispatches of the tick leave the list alone, the tick
\* does not get to its save while the list has an entry, and each pass of
\* the poll loop takes the head of the list, an entity with a sub_job_id.
C25_EveryInFlightPolled ==
  /\ [][(variant = "do" /\ pc = "check" /\ crashes' = crashes /\ pc' # pc
           /\ ~isExpired(mem))
          => /\ Range(toPoll') = InFlightIds(mem)
             /\ Len(toPoll') = Cardinality(InFlightIds(mem))
             /\ (InFlightIds(mem) # {} => pc' \in {"dispatch", "poll"})]_vars
  /\ [][(variant = "do" /\ pc = "dispatch" /\ crashes' = crashes
           /\ now' = now /\ resp' = resp)
          => /\ toPoll' = toPoll
             /\ (toPoll # <<>> => pc' \in {"dispatch", "poll"})]_vars
  /\ [][(variant = "do" /\ pc = "poll" /\ crashes' = crashes
           /\ now' = now /\ resp' = resp)
          => /\ toPoll # <<>>
             /\ mem.entities[Head(toPoll)].sub
             /\ toPoll' = Tail(toPoll)
             /\ (toPoll' # <<>> => pc' = "poll")
             /\ (pollElapsed(mem.entities[Head(toPoll)]) > poll_timeout_ms
                   => mem'.entities[Head(toPoll)].err = "timeout")]_vars

\* a tick that has dispatched one entity is polling another that was in
\* flight when the tick started
C25_Witness ==
  /\ variant = "do" /\ pc = "poll" /\ mem # NoJob
  /\ toPoll = <<"1">>
  /\ mem.entities["1"].status = "dispatched"
  /\ "a" \in DOMAIN mem.entities
  /\ mem.entities["a"].status = "dispatched"
  /\ mem.entities["a"].attempts = 2


\* the passes of one update loop are as C26 says: no more than maxRetries
\* passes, every conditional write expects the token its own pass read, and
\* a pass is followed by another only after a version conflict or a thrown
\* error
CasAsClaimed(maxRetries, r) ==
  /\ Len(r.trace) <= maxRetries
  /\ \A i \in 1..Len(r.trace) :
       /\ r.trace[i].wrote =>
            (r.trace[i].read # Null /\ r.trace[i].expect = r.trace[i].read)
       /\ i < Len(r.trace) =>
            r.trace[i].outcome \in {"conflict", "put_throws", "get_throws"}
  /\ r.done <=> (r.trace # <<>> /\ r.trace[Len(r.trace)].outcome = "ok")

\* both loops, under every course of events
CasLoopsAsClaimed ==
  /\ \A script \in [1..StatusMaxRetries -> CasEvents] :
       CasAsClaimed(StatusMaxRetries,
                    casLoop(StatusMaxRetries, script, 0, 0, <<>>))
  /\ \A script \in [1..LogMaxRetries -> CasEvents] :
       CasAsClaimed(LogMaxRetries, casLoop(LogMaxRetries, script, 0, 0, <<>>))

\* C26: the update of the job-collection status makes at most 3 conditional
\* writes and the update that adds the log's contains relationship at most
\* 5; every write expects the version token read in its own attempt, and a
\* further attempt follows only a version conflict or a thrown error.
C26_BoundedConditionalWrites ==
  pc \in {"fin_log", "exp_log", "kv_log"} => CasLoopsAsClaimed

\* the recorder has run: the status update went through and the contains
\* relationship could not be added
C26_Witness ==
  /\ pc = "idle"
  /\ recorded.written /\ recorded.updated /\ ~recorded.linked


\* two records have the same job status, result and error code (the message
\* of a result is a function of its status and counts)
SameOutcome(a, b) ==
  a.status = b.status /\ a.result = b.result /\ a.error = b.error

\* C27: the Finalizer run again on a record it has finalized, at the same or
\* at a later time, yields the same job status, result and error code: for
\* finalize applied to the record of a tick that waits for its log write,
\* for the tick that finalizes a second time after a crash, and for the
\* final computation of processJob.
C27_FinalizerIdempotent ==
  /\ [][(variant = "do" /\ pc = "fin_log")
          => SameOutcome(finalize(mem), mem)]_vars
  /\ [][(variant = "do" /\ pc = "check" /\ crashes' = crashes
           /\ pc' = "fin_log" /\ mem.result # NoResult)
          => SameOutcome(mem', mem)]_vars
  /\ [][(variant = "kv" /\ pc \in {"kv_log", "kv_save"})
          => SameOutcome(kvFinalize(mem), mem)]_vars

\* a tick is about to finalize a record that was finalized before, at an
\* earlier time
C27_Witness ==
  /\ variant = "do" /\ pc = "check" /\ mem # NoJob
  /\ mem.result # NoResult /\ mem.status = "done"
  /\ mem.completed_at < now
  /\ ~isExpired(mem)


\* the progress of a record counts its entities as they are
ProgressFresh(state) ==
  /\ state.progress.total = Cardinality(DOMAIN state.entities)
  /\ state.progress.pending =
       Cardinality({k \in DOMAIN state.entities :
                      state.entities[k].status = "pending"})
  /\ state.progress.dispatched = Cardinality(InFlightIds(state))
  /\ state.progress.done =
       Cardinality({k \in DOMAIN state.entities :
                      state.entities[k].status = "done"})
  /\ state.progress.error =
       Cardinality({k \in DOMAIN state.entities :
                      state.entities[k].status = "error"})

\* C28: a tick that does dispatch or poll work goes on to its save unless the
\* process crashes, and the step that schedules the next tick and returns
\* leaves the record persisted with the entities as the tick made them and
\* with progress recounted from them; no other step of a tick schedules a
\* tick.
C28_PersistedBeforeNextTick ==
  /\ [][(variant = "do" /\ pc \in {"dispatch", "poll"} /\ crashes' = crashes)
          => (pc' \in {"dispatch", "poll", "save"} /\ alarm' = alarm)]_vars
  /\ [][(variant = "do" /\ pc = "save" /\ crashes' = crashes /\ pc' # pc)
          => /\ pc' = "idle" /\ alarm'
             /\ stored'.entities = mem.entities
             /\ stored'.status = mem.status
             /\ ProgressFresh(stored')]_vars
  /\ [][(variant = "do" /\ pc # "idle" /\ crashes' = crashes
           /\ alarm' /\ ~alarm)
          => pc = "save"]_vars

\* a tick that dispatched an entity has returned: the next tick is scheduled
\* and the record holds the dispatch
C28_Witness ==
  /\ variant = "do" /\ pc = "idle" /\ alarm /\ crashes = 0
  /\ stored # NoJob
  /\ stored.progress.dispatched = 1
  /\ stored.progress.pending = 1
  /\ \E id \in DOMAIN stored.entities :
       stored.entities[id].status = "dispatched"


\* C29: in the job record completed_at and result are absent while the job
\* is pending or running, once set they never change, and error is present
\* only when the job status is error.
C29_CompletionFieldsSetOnce ==
  [][/\ (stored # NoJob /\ stored.status \in {"pending", "running"})
          => (stored.completed_at = -1 /\ stored.result = NoResult)
     /\ (stored # NoJob /\ stored.error # "none") => stored.status = "error"
     /\ (stored # NoJob /\ stored.completed_at # -1)
          => (stored' # NoJob /\ stored'.completed_at = stored.completed_at)
     /\ (stored # NoJob /\ stored.result # NoResult)
          => (stored' # NoJob /\ stored'.result = stored.result)]_vars


\* C30: one call of the status poller makes a single status check and
\* returns: no call is at a second check, after a sleep, of the same
\* sub-job.
C30_SingleCheckPerPollCall ==
  \A id \in DOMAIN task : task[id].at = "poll" => task[id].polls = 0


\* ------------------------------------------------------------------- C31
\* C31: when a second intake request for the same new job_id is handled while
\* the first is suspended in entity discovery, the record is still
\* initialised only once: once a record exists no further initial state is
\* saved (runs counts the saves of an initial state), and a record that ticks
\* have advanced past pending does not go back to pending
C31_OverlappingIntakeInitialisesOnce ==
  [][(variant = "do" /\ stored # NoJob)
       => /\ runs' = runs
          /\ stored'.status = "pending" => stored.status = "pending"]_vars


\* ------------------------------------------------------------------- C32
\* C32: in the Durable Object the entity transitions of one dispatch / poll
\* phase become durable all together or not at all: every step of a tick
\* leaves the stored entity map as it is, except the persist step at the end
\* of the tick, which stores the whole in-memory map; a crash in the tick
\* leaves the stored record untouched
C32_TickEntitiesAllOrNothing ==
  [][(variant = "do" /\ pc \in {"check", "dispatch", "poll", "save"})
       => \/ stored'.entities = stored.entities
          \/ /\ pc = "save" /\ pc' = "idle" /\ crashes' = crashes
             /\ stored'.entities = mem.entities]_vars

\* a tick that had applied a transition (a rejected dispatch or an answer
\* other than done) crashed before any tick persisted: the stored entities
\* are those of intake
C32_Witness ==
  /\ variant = "do"
  /\ crashes = 1
  /\ pc = "idle"
  /\ stored # NoJob
  /\ ~clean
  /\ \A id \in DOMAIN stored.entities : stored.entities[id] = NewEntity


\* ------------------------------------------------------------------- C33
\* C33: in executions of the Durable Object where every tick runs to its end,
\* at every tick boundary the number of invoke requests sent for an entity
\* equals its stored attempts counter; and every call of the dispatch client
\* (one iteration of dispatchEntities, one dispatchToSubAgent call of the
\* worker) sends exactly one invoke request, for the entity it is called for
C33_InvocationsEqualAttempts ==
  [][/\ (variant = "do" /\ crashes' = 0 /\ pc' = "idle" /\ stored' # NoJob)
          => \A id \in DOMAIN stored'.entities :
               sent'[id] = stored'.entities[id].attempts
     /\ (DispatchStep /\ crashes = 0)
          => /\ sent'[Head(toDispatch)] = sent[Head(toDispatch)] + 1
             /\ \A id \in DOMAIN sent \ {Head(toDispatch)} :
                  sent'[id] = sent[id]
     /\ \A id \in DOMAIN task :
          (KvStep(id, "dispatch") /\ sent # Uncounted)
            => /\ sent'[id] = sent[id] + 1
               /\ \A other \in DOMAIN sent \ {id} : sent'[other] = sent[other]]_vars

\* a tick boundary after a rejected dispatch and an accepted one of the same
\* entity: two attempts, two invoke requests
C33_Witness ==
  /\ variant = "do"
  /\ crashes = 0
  /\ pc = "idle"
  /\ stored # NoJob
  /\ \E id \in DOMAIN stored.entities :
       /\ stored.entities[id].attempts = 2
       /\ stored.entities[id].status = "dispatched"
       /\ sent[id] = 2


\* ------------------------------------------------------------------- C34
\* C34: in the Durable Object, in every stored record an entity in status
\* dispatched has a sub_job_id and a poll start time and an entity in status
\* pending has neither; hence every entity a tick is about to poll has a
\* sub_job_id, so that pollEntities does not skip it
C34_InFlightHasSubJob ==
  (variant = "do" /\ stored # NoJob)
    => /\ \A id \in DOMAIN stored.entities :
            LET e == stored.entities[id]
            IN /\ e.status = "dispatched" => (e.sub /\ e.pst # -1)
               /\ e.status = "pending" => (~e.sub /\ e.pst = -1)
       /\ pc = "poll" => \A id \in Range(toPoll) : mem.entities[id].sub

\* a stored record with one entity in flight and one that a failed poll sent
\* back to pending
C34_Witness ==
  /\ variant = "do"
  /\ stored # NoJob
  /\ \E id, other \in DOMAIN stored.entities :
       /\ stored.entities[id].status = "dispatched"
       /\ stored.entities[id].sub
       /\ stored.entities[other].status = "pending"
       /\ stored.entities[other].attempts >= 1
       /\ stored.entities[other].err \in {"remote", "timeout"}


\* ------------------------------------------------------------------- C35
\* C35: within one tick of the Durable Object an entity is dispatched at most
\* once, so its attempts grows by at most 1 over the stored record the tick
\* started from: the entities still to dispatch were pending at the start
\* and are listed once, the entities to poll were not dispatched in this
\* tick, and once polling has begun nothing is left to dispatch, so an
\* entity a poll returns to pending waits for a later tick
C35_OneDispatchPerTick ==
  (variant = "do" /\ pc \in {"dispatch", "poll", "save"})
    => /\ \A id \in DOMAIN mem.entities :
            mem.entities[id].attempts <= stored.entities[id].attempts + 1
       /\ \A id \in Range(toPoll) :
            mem.entities[id].attempts = stored.entities[id].attempts
       /\ \A i \in 1..Len(toDispatch) :
            /\ stored.entities[toDispatch[i]].status = "pending"
            /\ mem.entities[toDispatch[i]] = stored.entities[toDispatch[i]]
            /\ toDispatch[i] \notin Range(toPoll)
            /\ \A j \in 1..Len(toDispatch) :
                 toDispatch[j] = toDispatch[i] => j = i
       /\ pc \in {"poll", "save"} => toDispatch = <<>>

\* the end of a tick that dispatched one entity and whose poll sent another
\* back to pending
C35_Witness ==
  /\ variant = "do"
  /\ pc = "save"
  /\ \E id, other \in DOMAIN mem.entities :
       /\ stored.entities[id].status = "pending"
       /\ mem.entities[id].status = "dispatched"
       /\ mem.entities[id].attempts = stored.entities[id].attempts + 1
       /\ stored.entities[other].status = "dispatched"
       /\ mem.entities[other].status = "pending"
       /\ mem.entities[other].attempts = stored.entities[other].attempts


\* ------------------------------------------------------------------- C36
\* a job record with status done has no entity pending or in flight, has at
\* least one entity done, and its result counts add up to the number of its
\* entities
DoneConsistent(state) ==
  (state # NoJob /\ state.status = "done")
    => /\ \A id \in DOMAIN state.entities :
            state.entities[id].status \in Terminal
       /\ \E id \in DOMAIN state.entities : state.entities[id].status = "done"
       /\ state.result.succeeded + state.result.failed = state.result.total
       /\ state.result.total = Cardinality(DOMAIN state.entities)

\* C36: whenever the job status is done (in the stored record or in the
\* state object of the running handler, in either deployment) no entity is
\* pending or in flight, at least one entity is done, and
\* result.succeeded + result.failed = result.total = number of entities
C36_DoneJobConsistent ==
  /\ DoneConsistent(stored)
  /\ DoneConsistent(mem)

\* a stored job that is done with one entity done and one failed
C36_Witness ==
  /\ stored # NoJob
  /\ stored.status = "done"
  /\ stored.result.succeeded = 1
  /\ stored.result.failed = 1


\* ------------------------------------------------------------------- C37
\* C37: for every concurrency value intake resolves into config, the pool
\* never holds a queued task that has not been started while no task is
\* running (so every task added is run and drain() returns)
C37_NoQueuedTaskWhileIdle ==
  variant = "kv" => ~(pool.running = 0 /\ Len(pool.queue) > 0)


\* ------------------------------------------------------------------- C38
\* C38: for the same config and the same outcomes attempt by attempt, the
\* worker (processEntity) and the Durable Object (dispatchEntities /
\* pollEntities) end the entity in the same status with the same attempts,
\* and the two jobs end with the same status and the same result counts
C38_DeploymentsAgree ==
  (/\ call.fn = "entity"
   /\ call.do.entities["a"].status \in Terminal
   /\ call.kv.entities["a"].status \in Terminal)
    => /\ call.do.entities["a"].status = call.kv.entities["a"].status
       /\ call.do.entities["a"].attempts = call.kv.entities["a"].attempts
       /\ finalize(call.do).status = kvFinalize(call.kv).status
       /\ finalize(call.do).result = kvFinalize(call.kv).result


\* ------------------------------------------------------------------- C39
\* C39: every job record that is created has at least one entity (an intake
\* without entity ids discovers them, and a discovery that finds none is
\* turned away without a record), so a finalized record never has total = 0
AtLeastOneEntity(state) ==
  state # NoJob
    => /\ Cardinality(DOMAIN state.entities) >= 1
       /\ state.result # NoResult => state.result.total >= 1

C39_JobHasAnEntity ==
  /\ AtLeastOneEntity(stored)
  /\ AtLeastOneEntity(mem)

\* a finalized job all of whose entities failed: failed = total, total >= 1
C39_Witness ==
  /\ stored # NoJob
  /\ stored.status = "error"
  /\ stored.result # NoResult
  /\ stored.result.failed = stored.result.total
  /\ stored.result.total >= 1


\* ------------------------------------------------------------------- C40
\* the first page that is not a page with has_more set (the pages drawn are
\* followed by the end of the collection)
RECURSIVE StopPage(_, _)
StopPage(pages, i) ==
  IF i > Len(pages) THEN i
  ELSE IF pages[i].kind = "ok" /\ pages[i].has_more
    THEN StopPage(pages, i + 1)
  ELSE i

\* the entities of the first k pages, in page order
RECURSIVE ConcatPages(_, _)
ConcatPages(pages, k) ==
  IF k = 0 THEN <<>>
  ELSE ConcatPages(pages, k - 1)
         \o (IF k <= Len(pages) THEN pages[k].entities ELSE <<>>)

\* C40: discoverEntities asks for the offsets 0, limit, 2 * limit, ... up to
\* the first page whose has_more flag is false and returns the entity ids of
\* these pages concatenated in page order; if a page request gives an error
\* or no data it throws and the caller gets no partial list
C40_DiscoveryConcatenatesPages ==
  call.fn = "discoverEntities"
    => LET k == StopPage(call.pages, 1)
           failed == k <= Len(call.pages) /\ call.pages[k].kind # "ok"
       IN /\ \A i \in 1..Len(call.asked) : call.asked[i] = (i - 1) * limit
          /\ Len(call.asked) <= k
          /\ call.at = "loop" => call.result = NoList
          /\ call.at # "loop"
               => /\ Len(call.asked) = k
                  /\ call.at = (IF failed THEN "thrown" ELSE "returned")
                  /\ call.result = (IF failed THEN NoList
                                    ELSE ConcatPages(call.pages, k))

\* a listing of two pages that returned, and one that threw on its second
\* page after a first page with entities
C40_Witness ==
  /\ call.fn = "discoverEntities"
  /\ Len(call.pages) = 2
  /\ call.asked = <<0, limit>>
  /\ Len(call.pages[1].entities) > 0
  /\ \/ /\ call.at = "returned"
        /\ Len(call.pages[2].entities) > 0
        /\ call.result = call.pages[1].entities \o call.pages[2].entities
     \/ /\ call.at = "thrown"
        /\ call.result = NoList

====
